---------------------------- MODULE Spec2Model ----------------------------
(***************************************************************************)
(* A model of graphile-worker-ui: the status derivations of the client,    *)
(* the dashboard counts, the paginated job list and its URL parameters.    *)
(*                                                                         *)
(* Representation.  Text is a sequence of one-character strings.  A        *)
(* nullable text column (lastError, queueName) is a record [isNull, v]; a  *)
(* nullable timestamp (lockedAt) is 0 for null and a positive number       *)
(* otherwise (the API sends a non-empty ISO string, which JavaScript       *)
(* treats as true).                                                        *)
(***************************************************************************)
EXTENDS Integers, Sequences, FiniteSets, TLC

VARIABLES
  job,          \* the job row a view is rendering
  shown,        \* what the view shows for it: [view, status]
  jobs,         \* the Job Store: the rows of the jobs table, row i has id i
  stats,        \* the dashboard's jobStats, with the App that computed them
  listTotals,   \* the totalCount the job list received under each status filter
  searchTerm,   \* JobList state: the free-text search
  statusFilter, \* JobList state: the status filter
  taskFilter,   \* JobList state: the task filter
  queueFilter,  \* JobList state: the queue filter
  currentPage,  \* JobList state: the zero-based page index
  pageSize,     \* JobList state: rows per page
  data,         \* JobList: the result of its paginated query, or NoData while loading
  pagesShown,   \* the rows the list displayed on pages 0, 1, ... of the current filters
  location,     \* the query string of the address (location.search without "?")
  mounted,      \* JobList is mounted
  didMountRef,  \* JobList didMountRef.current
  updatingFromUrlRef, \* JobList updatingFromUrlRef.current
  pendingEffects, \* the effects whose dependencies changed in the last render
  stableSetter, \* the router returns the same setSearchParams for every URL
  reloadedFrom, \* the filter state the list had when the page was reloaded
  requested,    \* the last mount, user change or navigation: what it asked for and set
  offered,      \* the action buttons the view renders for the job
  payloadShown, \* the view renders the job's payload
  viewed,       \* the id of the job the view renders (0: none)
  onRefresh,    \* what the view calls after a mutation resolved
  click,        \* the action handler that is running, and what it did so far
  gone,         \* the ids whose rows were deleted from the jobs table
  called,       \* the stored-procedure call of the last mutation
  recent,       \* the dashboard's recent failures: positions in jobs, first on top
  pollView,     \* the view whose query slot is followed ("none": not mounted)
  pollEvery,    \* the pollInterval of that view's useQuery, in ms
  sent,         \* requests of the slot the server has not read yet
  answers,      \* responses on their way, counted by the job version they carry
  serverVersion, \* the job's state on the server: the number of mutations executed
  shownVersion, \* the job version the view displays (-1: still loading)
  acting,       \* the action handler of the view: idle, dispatched, resolved
  staleShown,   \* a response older than an executed mutation was displayed after it
  pager,        \* the props of Pagination: currentPage, totalPages, hasNextPage, hasPreviousPage
  passed        \* the control used last and the page it passed to onPageChange

statusVars == <<job, shown>>

dashVars == <<stats, listTotals, recent>>

filterVars == <<searchTerm, statusFilter, taskFilter, queueFilter>>

listVars == <<searchTerm, statusFilter, taskFilter, queueFilter, currentPage,
              pageSize, data, pagesShown>>

urlVars == <<location, mounted, didMountRef, updatingFromUrlRef, pendingEffects,
             stableSetter, reloadedFrom, requested>>

actVars == <<offered, payloadShown, viewed, onRefresh, click, gone, called>>

pollVars == <<pollView, pollEvery, sent, answers, serverVersion, shownVersion,
              acting, staleShown>>

pagingVars == <<pager, passed>>

vars == <<job, shown, jobs, stats, listTotals, searchTerm, statusFilter,
          taskFilter, queueFilter, currentPage, pageSize, data, pagesShown,
          location, mounted, didMountRef, updatingFromUrlRef, pendingEffects,
          stableSetter, reloadedFrom, requested, offered, payloadShown, viewed, onRefresh,
          click, gone, called, recent, pollView, pollEvery, sent, answers,
          serverVersion, shownVersion, acting, staleShown, pager, passed>>

---------------------------------------------------------------------------
(* Bounds *)

\* attempts and maxAttempts range up to this
MaxAttempts == 2

\* timestamps are 1..MaxTime
MaxTime == 1

\* updatedAt ranges over 1..MaxUpdated
MaxUpdated == 2

\* Pagination is rendered with totalPages from 2 up to this
MaxTotalPages == 4

\* polls and manual refreshes wait while this many requests are unanswered
MaxInFlight == 2

\* at most this many action mutations are executed
MaxActions == 2

\* the jobs table holds at most this many rows
MaxJobs == 2

\* createdAt ranges over 1..MaxCreated
MaxCreated == 1

\* the list is tried with every page size up to this (the code fixes 25)
MaxPageSize == 2

\* the pagination controls pass page indexes up to this
MaxPage == 11

---------------------------------------------------------------------------
(* JavaScript values *)

Null == [isNull |-> TRUE, v |-> <<>>]

Some(s) == [isNull |-> FALSE, v |-> s]

\* if (x), !x on a nullable string: null and "" are false
Truthy(x) == ~x.isNull /\ x.v # <<>>

\* if (t), !t on a nullable timestamp string
TruthyTime(t) == t # 0

All == <<"a", "l", "l">>

Pending == <<"p", "e", "n", "d", "i", "n", "g">>

Running == <<"r", "u", "n", "n", "i", "n", "g">>

Failed == <<"f", "a", "i", "l", "e", "d">>

Completed == <<"c", "o", "m", "p", "l", "e", "t", "e", "d">>

Statuses == {Pending, Running, Failed, Completed}

Boom == <<"b", "o", "o", "m">>

ErrorTexts == {Null, Some(<<>>), Some(Boom)}

\* the columns of a job row the dashboard and the status derivations read
StatusRows ==
  [lockedAt : 0..MaxTime, lastError : ErrorTexts,
   attempts : 0..MaxAttempts, maxAttempts : 1..MaxAttempts,
   updatedAt : 1..MaxUpdated]

RECURSIVE SumOver(_, _)
\* the sum of f[x] over the finite set S
SumOver(f, S) ==
  IF S = {} THEN 0
  ELSE LET x == CHOOSE y \in S : TRUE IN f[x] + SumOver(f, S \ {x})

\* jobs.filter(p).length on a sequence of rows, p given as the set of rows it keeps
CountIn(rows, keep) == Cardinality({i \in 1..Len(rows) : rows[i] \in keep})

---------------------------------------------------------------------------
(* The four status derivations *)

\* a derivation that tests the error before the lock
getJobStatusErrorFirst(j) ==
  IF Truthy(j.lastError) THEN Failed
  ELSE IF TruthyTime(j.lockedAt) THEN Running
  ELSE IF j.attempts > 0 THEN Completed
  ELSE Pending

\* JobList.getJobStatus (filter-based list)
getJobStatus(j) ==
  IF TruthyTime(j.lockedAt) THEN Running
  ELSE IF Truthy(j.lastError) /\ ~TruthyTime(j.lockedAt) THEN Failed
  ELSE IF j.attempts > 0 /\ ~Truthy(j.lastError) /\ ~TruthyTime(j.lockedAt)
       THEN Completed
  ELSE Pending

\* JobList.getJobStatus (condition-based list)
getJobStatusCond(j) ==
  IF TruthyTime(j.lockedAt) THEN Running
  ELSE IF j.attempts >= j.maxAttempts /\ Truthy(j.lastError) THEN Failed
  ELSE IF j.attempts > 0 /\ ~Truthy(j.lastError) /\ ~TruthyTime(j.lockedAt)
       THEN Completed
  ELSE Pending

\* a detail status that calls a job completed from its second attempt on
detailStatusOffByOne(j) ==
  IF TruthyTime(j.lockedAt) THEN Running
  ELSE IF Truthy(j.lastError) THEN Failed
  ELSE IF j.attempts > 1 THEN Completed
  ELSE Pending

\* JobDetails (routed detail view): const status = ...
detailStatus(j) ==
  IF TruthyTime(j.lockedAt) THEN Running
  ELSE IF Truthy(j.lastError) THEN Failed
  ELSE IF j.attempts > 0 THEN Completed
  ELSE Pending

\* JobDetails.getJobStatus (detail panel)
panelStatus(j) ==
  IF TruthyTime(j.lockedAt) THEN Running
  ELSE IF j.attempts >= j.maxAttempts /\ Truthy(j.lastError) THEN Failed
  ELSE IF j.attempts > 0 /\ ~Truthy(j.lastError) /\ ~TruthyTime(j.lockedAt)
       THEN Completed
  ELSE Pending

---------------------------------------------------------------------------
(* The API Gateway's connection filter, evaluated on a row *)

\* one condition of a filter object: { col: { op: arg } }
Atom(col, op, arg) == [col |-> col, op |-> op, arg |-> arg]

\* col IS NULL
ColIsNull(row, col) ==
  IF col = "lockedAt" THEN row.lockedAt = 0
  ELSE IF col \in {"lastError", "queueName"} THEN row[col].isNull
  ELSE FALSE

\* col = arg (never true of a null column)
ColEquals(row, col, arg) ==
  IF col = "queueName" THEN ~row.queueName.isNull /\ row.queueName.v = arg
  ELSE row[col] = arg

EvalAtom(row, a) ==
  CASE a.op = "isNull" -> ColIsNull(row, a.col) = a.arg
    [] a.op = "equalTo" -> ColEquals(row, a.col, a.arg)
    [] a.op = "greaterThan" -> row[a.col] > a.arg

\* a filter is a sequence of conditions, all of which must hold
MatchesFilter(row, filter) ==
  \A k \in 1..Len(filter) : EvalAtom(row, filter[k])

\* allJobs(filter: f) { totalCount }
ServerTotalCount(rows, filter) ==
  Cardinality({i \in 1..Len(rows) : MatchesFilter(rows[i], filter)})

---------------------------------------------------------------------------
(* SpecStatus: a view receives a job row and renders its status *)

NoShow == [view |-> "none", status |-> <<>>]

NoStats ==
  [src |-> "none", total |-> 0, pending |-> 0, running |-> 0,
   failed |-> 0, completed |-> 0]

NotFetched == -1

NoTotals == [s \in Statuses |-> NotFetched]

DefaultRow ==
  [lockedAt |-> 0, lastError |-> Null, attempts |-> 0, maxAttempts |-> 1,
   updatedAt |-> 1]

StatusIdle == job = DefaultRow /\ shown = NoShow

NoData ==
  [loaded |-> FALSE, nodes |-> <<>>, totalCount |-> 0,
   hasNextPage |-> FALSE, hasPreviousPage |-> FALSE]

ListIdle ==
  /\ searchTerm = <<>>
  /\ statusFilter = All
  /\ taskFilter = All
  /\ queueFilter = All
  /\ currentPage = 0
  /\ pageSize = 1
  /\ data = NoData
  /\ pagesShown = <<>>

NoSnapshot == [taken |-> FALSE]

NoRequest == [taken |-> FALSE, by |-> "none"]

UrlIdle ==
  /\ location = <<>>
  /\ mounted = FALSE
  /\ didMountRef = FALSE
  /\ updatingFromUrlRef = FALSE
  /\ pendingEffects = {}
  /\ stableSetter = FALSE
  /\ reloadedFrom = NoSnapshot
  /\ requested = NoRequest

DashIdle == stats = NoStats /\ listTotals = NoTotals /\ recent = <<>>

\* no handler is running: nothing was clicked
NoClick ==
  [kind |-> "none", id |-> 0, pc |-> "idle", asked |-> FALSE, confirmed |-> FALSE,
   dispatched |-> 0, queryThrew |-> FALSE, outcome |-> "none", toast |-> "none",
   refreshed |-> "none", refreshedAt |-> "none"]

\* no mutation has called a stored procedure
NoCall == [proc |-> "none", ids |-> <<>>, message |-> <<>>]

ActIdle ==
  /\ offered = {}
  /\ payloadShown = FALSE
  /\ viewed = 0
  /\ onRefresh = "none"
  /\ click = NoClick
  /\ gone = {}
  /\ called = NoCall

NoAnswers == [v \in 0..MaxActions |-> 0]

PollIdle ==
  /\ pollView = "none"
  /\ pollEvery = 0
  /\ sent = 0
  /\ answers = NoAnswers
  /\ serverVersion = 0
  /\ shownVersion = -1
  /\ acting = "idle"
  /\ staleShown = FALSE

NoPager ==
  [currentPage |-> 0, totalPages |-> 0, hasNextPage |-> FALSE,
   hasPreviousPage |-> FALSE]

NoPass == [control |-> "none", page |-> 0, typed |-> <<>>]

PagingIdle == pager = NoPager /\ passed = NoPass

InitStatus ==
  /\ job \in StatusRows
  /\ shown = NoShow
  /\ jobs = <<>>
  /\ DashIdle
  /\ ListIdle
  /\ UrlIdle
  /\ ActIdle
  /\ PollIdle
  /\ PagingIdle

\* the job list renders a row (filteredJobs.map)
RenderListRow ==
  \E j \in StatusRows :
    /\ job' = j
    /\ shown' = [view |-> "list", status |-> getJobStatus(j)]
    /\ UNCHANGED <<pagingVars, pollVars, actVars, jobs, dashVars, listVars, urlVars>>

\* the condition-based job list renders a row
RenderCondListRow ==
  \E j \in StatusRows :
    /\ job' = j
    /\ shown' = [view |-> "condList", status |-> getJobStatusCond(j)]
    /\ UNCHANGED <<pagingVars, pollVars, actVars, jobs, dashVars, listVars, urlVars>>

\* the routed detail view renders the job
RenderDetail ==
  \E j \in StatusRows :
    /\ job' = j
    /\ shown' = [view |-> "detail", status |-> detailStatus(j)]
    /\ UNCHANGED <<pagingVars, pollVars, actVars, jobs, dashVars, listVars, urlVars>>

\* the detail panel renders the job
RenderPanel ==
  \E j \in StatusRows :
    /\ job' = j
    /\ shown' = [view |-> "panel", status |-> panelStatus(j)]
    /\ UNCHANGED <<pagingVars, pollVars, actVars, jobs, dashVars, listVars, urlVars>>

NextStatus == RenderListRow \/ RenderCondListRow \/ RenderDetail \/ RenderPanel

SpecStatus == InitStatus /\ [][NextStatus]_vars

---------------------------------------------------------------------------
(* Claims about the status derivations, checked under SpecStatus *)

Rendered == shown.view # "none"

\* C1: a job whose lockedAt is not null is shown as running by every
\* derivation (list, condition-based list, detail view, detail panel),
\* whatever lastError, attempts and maxAttempts are.
C1_LockedIsRunning ==
  (Rendered /\ job.lockedAt # 0) => shown.status = Running

\* a locked job that also has an error and no attempts left was rendered
C1_Witness ==
  /\ shown.view = "list"
  /\ job.lockedAt # 0
  /\ job.lastError = Some(Boom)
  /\ job.attempts >= job.maxAttempts
  /\ shown.status = Running

\* C2: a job with lastError set and lockedAt null is shown as failed by
\* every derivation, for every value of attempts and maxAttempts.
C2_ErrorIsFailed ==
  (Rendered /\ Truthy(job.lastError) /\ job.lockedAt = 0)
    => shown.status = Failed

\* C3: a job with lockedAt null and lastError null is shown as completed
\* when attempts > 0 and as pending otherwise; a job that is in none of
\* the running, failed and completed cases is shown as pending.
C3_CompletedOrPending ==
  /\ (Rendered /\ job.lockedAt = 0 /\ job.lastError.isNull)
       => shown.status = (IF job.attempts > 0 THEN Completed ELSE Pending)
  /\ (Rendered /\ ~(job.lockedAt # 0)
               /\ ~(~job.lastError.isNull /\ job.lockedAt = 0)
               /\ ~(job.attempts > 0 /\ job.lastError.isNull /\ job.lockedAt = 0))
       => shown.status = Pending

\* the detail view rendered an unlocked job without error after one attempt
C3_Witness ==
  /\ shown.view = "detail"
  /\ job.lockedAt = 0
  /\ job.lastError.isNull
  /\ job.attempts = 1
  /\ shown.status = Completed

---------------------------------------------------------------------------
(* SpecDash: the dashboard and the job list count one job population *)

\* every table of at most MaxJobs rows
Populations(rowSet) == UNION {[1..n -> rowSet] : n \in 0..MaxJobs}

\* App (full scan): jobStats computed from all nodes
scanStats(rows) ==
  [src |-> "scan",
   total |-> Len(rows),
   pending |-> CountIn(rows, {r \in StatusRows :
                 ~TruthyTime(r.lockedAt) /\ r.attempts < r.maxAttempts}),
   running |-> CountIn(rows, {r \in StatusRows : TruthyTime(r.lockedAt)}),
   failed |-> CountIn(rows, {r \in StatusRows :
                 Truthy(r.lastError) /\ ~TruthyTime(r.lockedAt)}),
   completed |-> CountIn(rows, {r \in StatusRows :
                 r.attempts > 0 /\ ~Truthy(r.lastError) /\ ~TruthyTime(r.lockedAt)})]

\* GET_DASHBOARD_DATA_QUERY: the filter of each aliased allJobs field
dashboardFilter(bucket) ==
  CASE bucket = "total" -> <<>>
    [] bucket = "running" -> <<Atom("lockedAt", "isNull", FALSE)>>
    [] bucket = "failed" -> <<Atom("lastError", "isNull", FALSE),
                              Atom("lockedAt", "isNull", TRUE)>>
    [] bucket = "completed" -> <<Atom("attempts", "greaterThan", 0),
                                 Atom("lastError", "isNull", TRUE),
                                 Atom("lockedAt", "isNull", TRUE)>>

Max(a, b) == IF a >= b THEN a ELSE b

\* App (aggregate): counts from the server, pending by subtraction
aggregateStats(rows) ==
  LET counts == [b \in {"total", "running", "failed", "completed"} |->
                   ServerTotalCount(rows, dashboardFilter(b))]
  IN [src |-> "aggregate",
      total |-> counts["total"],
      running |-> counts["running"],
      failed |-> counts["failed"],
      completed |-> counts["completed"],
      pending |-> Max(0, counts["total"] - counts["running"]
                           - counts["failed"] - counts["completed"])]

\* the positions 1..Len(rows) in order
Positions(rows) == [i \in 1..Len(rows) |-> i]

RECURSIVE InsertByUpdated(_, _, _)
\* ids is ordered by updatedAt descending; i goes behind every entry that
\* is not older than it
InsertByUpdated(ids, i, rows) ==
  IF ids = <<>> THEN <<i>>
  ELSE IF rows[Head(ids)].updatedAt >= rows[i].updatedAt
       THEN <<Head(ids)>> \o InsertByUpdated(Tail(ids), i, rows)
       ELSE <<i>> \o ids

RECURSIVE SortByUpdatedDesc(_, _)
\* Array.prototype.sort with (a, b) => new Date(b.updatedAt) - new Date(a.updatedAt):
\* newest first, equal timestamps keep their order (the sort is stable)
SortByUpdatedDesc(ids, rows) ==
  IF ids = <<>> THEN <<>>
  ELSE InsertByUpdated(SortByUpdatedDesc(SubSeq(ids, 1, Len(ids) - 1), rows),
                       ids[Len(ids)], rows)

\* slice(0, n)
Slice0(seq, n) == SubSeq(seq, 1, IF Len(seq) < n THEN Len(seq) ELSE n)

\* the full-scan App keeps this many recent failures
RecentShown == 5

\* failedJobs: allJobs(first: 25, ...)
FailedFirst == 25

\* App (full scan): recentFailedJobs
recentFailedScan(rows) ==
  Slice0(SortByUpdatedDesc(
           SelectSeq(Positions(rows), LAMBDA i : Truthy(rows[i].lastError)),
           rows),
         RecentShown)

\* GET_DASHBOARD_DATA_QUERY: the filter of the failedJobs field
failedJobsFilter == <<Atom("lastError", "isNull", FALSE)>>

\* the orders without repetition of the positions in S
OrdersOf(S) ==
  {ids \in [1..Cardinality(S) -> S] :
     \A a, b \in 1..Cardinality(S) : a # b => ids[a] # ids[b]}

\* App (aggregate): failedJobs.nodes, the first FailedFirst matching rows by
\* UPDATED_AT_DESC; the server decides the order of equal timestamps
failedJobsField(rows) ==
  LET matching == {i \in 1..Len(rows) : MatchesFilter(rows[i], failedJobsFilter)}
  IN {Slice0(ids, FailedFirst) : ids \in
        {o \in OrdersOf(matching) :
           \A a, b \in 1..Len(o) :
             a < b => rows[o[a]].updatedAt >= rows[o[b]].updatedAt}}

\* JobList.buildFilter
buildFilter(status, task, queue) ==
  (IF task # All THEN <<Atom("taskIdentifier", "equalTo", task)>> ELSE <<>>)
  \o (IF queue # All THEN <<Atom("queueName", "equalTo", queue)>> ELSE <<>>)
  \o (CASE status = Running -> <<Atom("lockedAt", "isNull", FALSE)>>
        [] status = Failed -> <<Atom("lastError", "isNull", FALSE),
                                Atom("lockedAt", "isNull", TRUE)>>
        [] status = Completed -> <<Atom("attempts", "greaterThan", 0),
                                   Atom("lastError", "isNull", TRUE),
                                   Atom("lockedAt", "isNull", TRUE)>>
        [] status = Pending -> <<Atom("lockedAt", "isNull", TRUE),
                                 Atom("attempts", "equalTo", 0)>>
        [] OTHER -> <<>>)

InitDash ==
  /\ jobs \in Populations(StatusRows)
  /\ stats = NoStats
  /\ listTotals = NoTotals
  /\ recent = <<>>
  /\ StatusIdle
  /\ ListIdle
  /\ UrlIdle
  /\ ActIdle
  /\ PollIdle
  /\ PagingIdle

\* the full-scan App's dashboard query resolves
DashboardScanResolve ==
  /\ stats' = scanStats(jobs)
  /\ recent' = recentFailedScan(jobs)
  /\ UNCHANGED <<pagingVars, pollVars, actVars, jobs, listTotals, statusVars, listVars, urlVars>>

\* the aggregate App's dashboard query resolves
DashboardAggregateResolve ==
  /\ stats' = aggregateStats(jobs)
  /\ recent' \in failedJobsField(jobs)
  /\ UNCHANGED <<pagingVars, pollVars, actVars, jobs, listTotals, statusVars, listVars, urlVars>>

\* the job list's query resolves with status filter s and no other filter
ListTotalResolve ==
  \E s \in Statuses :
    /\ listTotals' = [listTotals EXCEPT
                        ![s] = ServerTotalCount(jobs, buildFilter(s, All, All))]
    /\ UNCHANGED <<pagingVars, pollVars, actVars, jobs, stats, recent, statusVars, listVars, urlVars>>

NextDash == DashboardScanResolve \/ DashboardAggregateResolve \/ ListTotalResolve

SpecDash == InitDash /\ [][NextDash]_vars

---------------------------------------------------------------------------
(* Claims about the dashboard counts, checked under SpecDash *)

\* C4: the four dashboard buckets partition the jobs, so
\* pending + running + failed + completed = total, from the full scan and
\* from the server-side counts alike.
C4_BucketsPartition ==
  stats.src # "none" =>
    stats.pending + stats.running + stats.failed + stats.completed = stats.total

AllTotalsFetched == \A s \in Statuses : listTotals[s] # NotFetched

\* C5: the dashboard total is the sum of the list's totalCount under the
\* four status filters, and each dashboard bucket is the list's totalCount
\* for the same status.
C5_DashboardMatchesList ==
  (stats.src = "aggregate" /\ AllTotalsFetched) =>
    /\ stats.total = SumOver(listTotals, Statuses)
    /\ stats.pending = listTotals[Pending]
    /\ stats.running = listTotals[Running]
    /\ stats.failed = listTotals[Failed]
    /\ stats.completed = listTotals[Completed]

\* the positions in jobs of the jobs whose derived status is failed
FailedPositions == {i \in 1..Len(jobs) : getJobStatus(jobs[i]) = Failed}

\* the recent-failures list never holds more than this many entries
RecentLimit == IF stats.src = "scan" THEN RecentShown ELSE FailedFirst

\* C19: the dashboard's recent-failures list is bounded (25 entries from the
\* server-side query, 5 from the full scan), every entry is a job whose
\* derived status is failed, the entries are ordered by updatedAt
\* descending, and no failed job left out of the list is more recent than a
\* job in it.
C19_RecentFailuresList ==
  stats.src # "none" =>
    /\ Len(recent) <= RecentLimit
    /\ \A k \in 1..Len(recent) : recent[k] \in FailedPositions
    /\ \A a, b \in 1..Len(recent) :
         a < b => jobs[recent[a]].updatedAt >= jobs[recent[b]].updatedAt
    /\ \A i \in FailedPositions :
         (\A k \in 1..Len(recent) : recent[k] # i)
           => \A k \in 1..Len(recent) :
                jobs[i].updatedAt <= jobs[recent[k]].updatedAt

---------------------------------------------------------------------------
(* SpecList: the paginated job list over a fixed job population *)

TaskA == <<"a">>

TaskB == <<"B", "x">>

TaskNames == {TaskA, TaskB}

QueueA == <<"q">>

QueueNames == {QueueA}

\* the search terms a user types
SearchTerms == {<<>>, <<"b">>}

\* the rows of the jobs table as the list query selects them
ListRows ==
  [taskIdentifier : TaskNames, queueName : {Null} \cup {Some(q) : q \in QueueNames},
   key : {Null}, createdAt : 1..MaxCreated, lockedAt : 0..1,
   lastError : {Null, Some(Boom)}, attempts : 0..1, maxAttempts : {MaxAttempts}]

\* String.prototype.toLowerCase, on the letters the model uses
LowerChar(c) ==
  CASE c = "A" -> "a"
    [] c = "B" -> "b"
    [] c = "Q" -> "q"
    [] c = "X" -> "x"
    [] OTHER -> c

toLowerCase(str) == [i \in 1..Len(str) |-> LowerChar(str[i])]

\* String.prototype.includes
includes(str, sub) ==
  \E i \in 0..(Len(str) - Len(sub)) : SubSeq(str, i + 1, i + Len(sub)) = sub

\* orderBy CREATED_AT_DESC, ties by primary key: row i comes before row k
ComesBefore(rows, i, k) ==
  \/ rows[i].createdAt > rows[k].createdAt
  \/ rows[i].createdAt = rows[k].createdAt /\ i < k

RECURSIVE SortIds(_, _)
\* the ids of S in the order of the query
SortIds(rows, S) ==
  IF S = {} THEN <<>>
  ELSE LET first == CHOOSE i \in S : \A k \in S \ {i} : ComesBefore(rows, i, k)
       IN <<first>> \o SortIds(rows, S \ {first})

\* a node of the result: the row with its id
Node(rows, i) == [id |-> i] @@ rows[i]

\* allJobs(first, offset, orderBy: CREATED_AT_DESC, filter) { nodes totalCount pageInfo }
ServerPage(rows, first, offset, filter) ==
  LET ids == SortIds(rows, {i \in 1..Len(rows) : MatchesFilter(rows[i], filter)})
      total == Len(ids)
      from == offset + 1
      to == IF offset + first < total THEN offset + first ELSE total
  IN [loaded |-> TRUE,
      nodes |-> [k \in 1..(IF to >= from THEN to - from + 1 ELSE 0) |->
                   Node(rows, ids[from + k - 1])],
      totalCount |-> total,
      hasNextPage |-> offset + first < total,
      hasPreviousPage |-> offset > 0]

\* Math.ceil(totalCount / pageSize)
totalPages == (data.totalCount + pageSize - 1) \div pageSize

\* JobList.filteredJobs: the predicate of jobs.filter
matchesFilters(j, search, status, task, queue) ==
  LET term == toLowerCase(search)
      matchesSearch ==
        \/ search = <<>>
        \/ includes(toLowerCase(j.taskIdentifier), term)
        \/ ~j.queueName.isNull /\ includes(toLowerCase(j.queueName.v), term)
        \/ ~j.key.isNull /\ includes(toLowerCase(j.key.v), term)
      matchesStatus == status = All \/ getJobStatus(j) = status
      matchesTask == task = All \/ j.taskIdentifier = task
      matchesQueue ==
        queue = All \/ (~j.queueName.isNull /\ j.queueName.v = queue)
  IN matchesSearch /\ matchesStatus /\ matchesTask /\ matchesQueue

\* JobList.filteredJobs: the rows the list renders
filteredJobs(nodes, search, status, task, queue) ==
  SelectSeq(nodes, LAMBDA j : matchesFilters(j, search, status, task, queue))

\* the ids of the rendered rows
RowIds(rows) == [k \in 1..Len(rows) |-> rows[k].id]

---------------------------------------------------------------------------
(* The address parameters: URLSearchParams, parseInt and String *)

KeyQ == <<"q">>

KeyStatus == <<"s", "t", "a", "t", "u", "s">>

KeyTask == <<"t", "a", "s", "k">>

KeyQueue == <<"q", "u", "e", "u", "e">>

KeyPage == <<"p", "a", "g", "e">>

Digits == <<"0", "1", "2", "3", "4", "5", "6", "7", "8", "9">>

IsDigit(c) == \E d \in 1..10 : Digits[d] = c

DigitValue(c) == (CHOOSE d \in 1..10 : Digits[d] = c) - 1

IsHexDigit(c) == IsDigit(c) \/ c \in {"A", "B", "C", "D", "E", "F", "a", "b", "c", "d", "e", "f"}

RECURSIVE ToDigits(_)
\* String(n) for n >= 0
ToDigits(n) ==
  IF n < 10 THEN <<Digits[n + 1]>>
  ELSE ToDigits(n \div 10) \o <<Digits[(n % 10) + 1]>>

RECURSIVE DigitsValue(_, _)
\* the number whose decimal digits are ds, after the digits already read as acc
DigitsValue(ds, acc) ==
  IF ds = <<>> THEN acc
  ELSE DigitsValue(Tail(ds), 10 * acc + DigitValue(Head(ds)))

RECURSIVE SkipSpaces(_)
SkipSpaces(str) ==
  IF str # <<>> /\ Head(str) = " " THEN SkipSpaces(Tail(str)) ELSE str

RECURSIVE LeadingDigits(_)
LeadingDigits(str) ==
  IF str # <<>> /\ IsDigit(Head(str))
  THEN <<Head(str)>> \o LeadingDigits(Tail(str))
  ELSE <<>>

\* parseInt(str, 10): [nan, n]
parseInt(str) ==
  LET trimmed == SkipSpaces(str)
      signed == trimmed # <<>> /\ Head(trimmed) \in {"+", "-"}
      negative == trimmed # <<>> /\ Head(trimmed) = "-"
      ds == LeadingDigits(IF signed THEN Tail(trimmed) ELSE trimmed)
  IN IF ds = <<>> THEN [nan |-> TRUE, n |-> 0]
     ELSE [nan |-> FALSE,
           n |-> IF negative THEN 0 - DigitsValue(ds, 0) ELSE DigitsValue(ds, 0)]

\* the form-urlencoded serialisation of one character
EncodeChar(c) ==
  CASE c = " " -> <<"+">>
    [] c = "&" -> <<"%", "2", "6">>
    [] c = "=" -> <<"%", "3", "D">>
    [] c = "+" -> <<"%", "2", "B">>
    [] c = "%" -> <<"%", "2", "5">>
    [] OTHER -> <<c>>

RECURSIVE EncodeComponent(_)
EncodeComponent(str) ==
  IF str = <<>> THEN <<>>
  ELSE EncodeChar(Head(str)) \o EncodeComponent(Tail(str))

\* the character of a percent-encoded byte
ByteChar(h1, h2) ==
  CASE h1 = "2" /\ h2 = "0" -> " "
    [] h1 = "2" /\ h2 = "6" -> "&"
    [] h1 = "3" /\ h2 \in {"D", "d"} -> "="
    [] h1 = "2" /\ h2 \in {"B", "b"} -> "+"
    [] h1 = "2" /\ h2 = "5" -> "%"
    [] OTHER -> "?"

RECURSIVE DecodeComponent(_)
\* "+" is a space, %XX is a byte, anything else stands for itself
DecodeComponent(str) ==
  IF str = <<>> THEN <<>>
  ELSE IF Head(str) = "+" THEN <<" ">> \o DecodeComponent(Tail(str))
  ELSE IF Head(str) = "%" /\ Len(str) >= 3 /\ IsHexDigit(str[2]) /\ IsHexDigit(str[3])
       THEN <<ByteChar(str[2], str[3])>> \o DecodeComponent(SubSeq(str, 4, Len(str)))
  ELSE <<Head(str)>> \o DecodeComponent(Tail(str))

\* the position of the first c in str, or 0
IndexOf(str, c) ==
  IF \E i \in 1..Len(str) : str[i] = c
  THEN CHOOSE i \in 1..Len(str) : str[i] = c /\ \A k \in 1..(i - 1) : str[k] # c
  ELSE 0

RECURSIVE Split(_, _)
\* str.split(c)
Split(str, c) ==
  LET i == IndexOf(str, c)
  IN IF i = 0 THEN <<str>>
     ELSE <<SubSeq(str, 1, i - 1)>> \o Split(SubSeq(str, i + 1, Len(str)), c)

\* one name=value piece of a query string
ParsePair(piece) ==
  LET i == IndexOf(piece, "=")
  IN IF i = 0 THEN [name |-> DecodeComponent(piece), value |-> <<>>]
     ELSE [name |-> DecodeComponent(SubSeq(piece, 1, i - 1)),
           value |-> DecodeComponent(SubSeq(piece, i + 1, Len(piece)))]

\* new URLSearchParams(query): the list of name/value pairs
ParseQuery(query) ==
  LET pieces == SelectSeq(Split(query, "&"), LAMBDA piece : piece # <<>>)
  IN [k \in 1..Len(pieces) |-> ParsePair(pieces[k])]

RECURSIVE Serialize(_)
\* URLSearchParams.toString()
Serialize(pairs) ==
  IF pairs = <<>> THEN <<>>
  ELSE EncodeComponent(pairs[1].name) \o <<"=">> \o EncodeComponent(pairs[1].value)
       \o (IF Len(pairs) > 1 THEN <<"&">> \o Serialize(Tail(pairs)) ELSE <<>>)

\* URLSearchParams.get(name): the first value of that name, or null
Get(pairs, name) ==
  IF \E k \in 1..Len(pairs) : pairs[k].name = name
  THEN Some(pairs[CHOOSE k \in 1..Len(pairs) :
                    pairs[k].name = name /\ \A m \in 1..(k - 1) : pairs[m].name # name].value)
  ELSE Null

\* x || d
OrElse(x, d) == IF Truthy(x) THEN x.v ELSE d

Param(name, value) == [name |-> name, value |-> value]

\* the page index of the address: parseInt(get('page') || '1', 10), 1-based
pageFromParams(pairs) ==
  LET p == parseInt(OrElse(Get(pairs, KeyPage), <<"1">>))
  IN IF ~p.nan /\ p.n > 0 THEN p.n - 1 ELSE 0

\* the filter state the URL effect reads from the address
stateFromParams(pairs) ==
  [searchTerm |-> OrElse(Get(pairs, KeyQ), <<>>),
   statusFilter |-> OrElse(Get(pairs, KeyStatus), All),
   taskFilter |-> OrElse(Get(pairs, KeyTask), All),
   queueFilter |-> OrElse(Get(pairs, KeyQueue), All),
   currentPage |-> pageFromParams(pairs)]

\* a page initialiser that forgets the address counts pages from 1
initialPageZeroBased(pairs) ==
  LET p == parseInt(OrElse(Get(pairs, KeyPage), <<"1">>))
  IN IF ~p.nan /\ p.n > 0 THEN p.n ELSE 0

\* useState(() => { parseInt(searchParams.get('page') || '1', 10) ... })
initialPage(pairs) ==
  LET p == parseInt(OrElse(Get(pairs, KeyPage), <<"1">>))
  IN IF ~p.nan /\ p.n > 0 THEN p.n - 1 ELSE 0

\* the state the useState initialisers of JobList read from the address
initialState(pairs) ==
  [searchTerm |-> OrElse(Get(pairs, KeyQ), <<>>),
   statusFilter |-> OrElse(Get(pairs, KeyStatus), All),
   taskFilter |-> OrElse(Get(pairs, KeyTask), All),
   queueFilter |-> OrElse(Get(pairs, KeyQueue), All),
   currentPage |-> initialPage(pairs)]

\* the parameters the URL sync effect builds from the state st
paramsFromState(st) ==
  (IF st.searchTerm # <<>> THEN <<Param(KeyQ, st.searchTerm)>> ELSE <<>>)
  \o (IF st.statusFilter # <<>> /\ st.statusFilter # All
      THEN <<Param(KeyStatus, st.statusFilter)>> ELSE <<>>)
  \o (IF st.taskFilter # <<>> /\ st.taskFilter # All
      THEN <<Param(KeyTask, st.taskFilter)>> ELSE <<>>)
  \o (IF st.queueFilter # <<>> /\ st.queueFilter # All
      THEN <<Param(KeyQueue, st.queueFilter)>> ELSE <<>>)
  \o (IF st.currentPage + 1 # 1
      THEN <<Param(KeyPage, ToDigits(st.currentPage + 1))>> ELSE <<>>)

\* the query strings a link, a bookmark or the history hands to the list
LinkedQueries ==
  {<<>>,
   KeyPage \o <<"=", "3">>,
   KeyPage \o <<"=", "x">>,
   KeyPage \o <<"=", "-", "1">>,
   KeyStatus \o <<"=">> \o Failed \o <<"&">> \o KeyPage \o <<"=", "1", "2">>,
   KeyQ \o <<"=", "a", "%", "2", "0", "b">>,
   KeyQueue \o <<"=">> \o QueueA \o <<"&">> \o KeyTask \o <<"=">> \o TaskB}

---------------------------------------------------------------------------
(* The job list's query, pages and pagination controls *)

InitList ==
  /\ jobs \in Populations(ListRows)
  /\ searchTerm \in SearchTerms
  /\ statusFilter \in {All} \cup Statuses
  /\ taskFilter \in {All, TaskA}
  /\ queueFilter \in {All} \cup QueueNames
  /\ currentPage \in {initialPage(ParseQuery(query)) : query \in LinkedQueries}
  /\ pageSize \in 1..MaxPageSize
  /\ data = NoData
  /\ pagesShown = <<>>
  /\ StatusIdle
  /\ DashIdle
  /\ UrlIdle
  /\ ActIdle
  /\ PollIdle
  /\ PagingIdle

\* the list's query resolves (first load, change of variables, poll, refetch)
\* and the list renders the rows
QueryResolve ==
  LET result == ServerPage(jobs, pageSize, currentPage * pageSize,
                           buildFilter(statusFilter, taskFilter, queueFilter))
      rendered == filteredJobs(result.nodes, searchTerm, statusFilter,
                               taskFilter, queueFilter)
  IN
  /\ data' = result
  /\ pagesShown' =
       IF currentPage = Len(pagesShown)
       THEN Append(pagesShown, RowIds(rendered))
       ELSE IF currentPage < Len(pagesShown) THEN pagesShown
       ELSE <<>>
  /\ UNCHANGED <<pagingVars, pollVars, actVars, jobs, filterVars, currentPage, pageSize, statusVars, dashVars, urlVars>>

\* onPageChange={(p) => setCurrentPage(p)}: new variables, the query loads again
setCurrentPage(p) ==
  /\ currentPage' = p
  /\ data' = IF p = currentPage THEN data ELSE NoData
  /\ UNCHANGED <<pagingVars, pollVars, actVars, jobs, filterVars, pageSize, pagesShown, statusVars, dashVars, urlVars>>

\* the pagination controls are rendered
PaginationShown == data.loaded /\ totalPages > 1

\* Pagination: First
ClickFirst ==
  /\ PaginationShown
  /\ currentPage # 0
  /\ setCurrentPage(0)

\* Pagination: Previous
ClickPrevious ==
  /\ PaginationShown
  /\ data.hasPreviousPage
  /\ setCurrentPage(Max(0, currentPage - 1))

Min(a, b) == IF a <= b THEN a ELSE b

\* Pagination: Next
ClickNext ==
  /\ PaginationShown
  /\ data.hasNextPage
  /\ setCurrentPage(Min(currentPage + 1, totalPages - 1))

\* Pagination: Last
ClickLast ==
  /\ PaginationShown
  /\ ~(currentPage >= totalPages - 1)
  /\ setCurrentPage(totalPages - 1)

NextList == QueryResolve \/ ClickFirst \/ ClickPrevious \/ ClickNext \/ ClickLast

SpecList == InitList /\ [][NextList]_vars

---------------------------------------------------------------------------
(* Claims about pagination, checked under SpecList *)

RECURSIVE Flatten(_)
Flatten(pages) ==
  IF pages = <<>> THEN <<>> ELSE Head(pages) \o Flatten(Tail(pages))

\* the user has gone through pages 0..totalPages-1 in order
WalkComplete == data.loaded /\ totalPages >= 1 /\ Len(pagesShown) = totalPages

\* the jobs that match the list's filters, the search included
MatchingIds ==
  {i \in 1..Len(jobs) :
     matchesFilters(Node(jobs, i), searchTerm, statusFilter, taskFilter, queueFilter)}

NoRepeats(seq) == \A a, b \in 1..Len(seq) : seq[a] = seq[b] => a = b

ElementsOf(seq) == {seq[k] : k \in 1..Len(seq)}

\* C6: with an unchanged population and fixed filters a page shows at most
\* pageSize rows, and pages 0..totalPages-1 together show every job that
\* matches the filters exactly once, as many rows as the total count shown.
C6_PagesCoverTotal ==
  /\ \A k \in 1..Len(pagesShown) : Len(pagesShown[k]) <= pageSize
  /\ WalkComplete =>
       /\ NoRepeats(Flatten(pagesShown))
       /\ ElementsOf(Flatten(pagesShown)) = MatchingIds
       /\ Len(Flatten(pagesShown)) = data.totalCount

\* C26: server-side and client-side status filtering agree: under a status
\* filter a job satisfies the predicate buildFilter sends to the server
\* exactly when its client-side derived status is that status; hence the
\* client-side filter drops no row the server returned for the status.
C26_ServerAndClientFilterAgree ==
  (data.loaded /\ statusFilter # All) =>
    /\ \A i \in 1..Len(jobs) :
         MatchesFilter(jobs[i], buildFilter(statusFilter, All, All))
           <=> getJobStatus(jobs[i]) = statusFilter
    /\ \A k \in 1..Len(data.nodes) :
         matchesFilters(data.nodes[k], <<>>, statusFilter, taskFilter, queueFilter)

\* Pagination: const from
from == IF data.totalCount = 0 THEN 0 ELSE currentPage * pageSize + 1

\* Pagination: const to
to == Min((currentPage + 1) * pageSize, data.totalCount)

\* C27: in every state of the job list the current page is a valid page:
\* 0 <= currentPage, and currentPage <= totalPages - 1 whenever there are
\* pages, so that the range the pagination controls display satisfies
\* 1 <= from <= to <= totalCount whenever there are jobs.
C27_CurrentPageValid ==
  data.loaded =>
    /\ 0 <= currentPage
    /\ totalPages > 0 => currentPage <= totalPages - 1
    /\ data.totalCount > 0 => (1 <= from /\ from <= to /\ to <= data.totalCount)

---------------------------------------------------------------------------
(* SpecUrl: the job list's filter state, its three effects and the address *)

\* the search terms typed into the search box
TypedTerms ==
  {<<>>, <<"b">>, <<"a", " ">>, <<"&", "=">>, <<"+", "%">>}

\* the filter state of the list
FilterState ==
  [searchTerm |-> searchTerm, statusFilter |-> statusFilter,
   taskFilter |-> taskFilter, queueFilter |-> queueFilter,
   currentPage |-> currentPage]

\* React state after the setters of a handler or of the effects
SetFilterState(st) ==
  /\ searchTerm' = st.searchTerm
  /\ statusFilter' = st.statusFilter
  /\ taskFilter' = st.taskFilter
  /\ queueFilter' = st.queueFilter
  /\ currentPage' = st.currentPage

FiltersOf(st) == <<st.statusFilter, st.taskFilter, st.queueFilter, st.searchTerm>>

\* the effects React runs after a render in which the state went from old to
\* new and the address from oldLoc to newLoc (their dependency arrays)
EffectsFor(old, new, oldLoc, newLoc) ==
  (IF FiltersOf(old) # FiltersOf(new) THEN {"reset"} ELSE {})
  \cup (IF old # new \/ (oldLoc # newLoc /\ ~stableSetter) THEN {"sync"} ELSE {})
  \cup (IF oldLoc # newLoc THEN {"url"} ELSE {})

Stable == mounted /\ pendingEffects = {}

InitUrl ==
  /\ location \in LinkedQueries
  /\ mounted = FALSE
  /\ didMountRef = FALSE
  /\ updatingFromUrlRef = FALSE
  /\ pendingEffects = {}
  /\ stableSetter \in BOOLEAN
  /\ reloadedFrom = NoSnapshot
  /\ requested = NoRequest
  /\ searchTerm = <<>>
  /\ statusFilter = All
  /\ taskFilter = All
  /\ queueFilter = All
  /\ currentPage = 0
  /\ pageSize = 1
  /\ data = NoData
  /\ pagesShown = <<>>
  /\ jobs = <<>>
  /\ StatusIdle
  /\ DashIdle
  /\ ActIdle
  /\ PollIdle
  /\ PagingIdle

\* the page is loaded or reloaded: JobList mounts, its state initialisers read
\* the address, and every effect is due
Mount ==
  /\ ~mounted \/ pendingEffects = {}
  /\ mounted' = TRUE
  /\ SetFilterState(initialState(ParseQuery(location)))
  /\ didMountRef' = FALSE
  /\ updatingFromUrlRef' = FALSE
  /\ pendingEffects' = {"reset", "sync", "url"}
  /\ reloadedFrom' = IF mounted THEN [taken |-> TRUE, state |-> FilterState]
                     ELSE NoSnapshot
  /\ requested' = [taken |-> TRUE, by |-> "mount",
                   state |-> initialState(ParseQuery(location)),
                   handled |-> initialState(ParseQuery(location))]
  /\ UNCHANGED <<pagingVars, pollVars, actVars, location, stableSetter, jobs, pageSize, data, pagesShown,
                 statusVars, dashVars>>

\* a URL effect that never marks its updates
markerAfterUnmarked(runUrl, resetSkips, marker) ==
  IF resetSkips THEN FALSE ELSE marker

\* updatingFromUrlRef.current after the effects: the URL effect sets it, the
\* reset-page effect clears it when it skips because of it
markerAfter(runUrl, resetSkips, marker) ==
  IF runUrl THEN TRUE
  ELSE IF resetSkips THEN FALSE
  ELSE marker

\* the effects that are due run in order (reset page, state to URL, URL to
\* state) on the values of the render, and React renders their updates
RunEffects ==
  LET old == FilterState
      runReset == "reset" \in pendingEffects
      runSync == "sync" \in pendingEffects
      runUrl == "url" \in pendingEffects
      \* reset-page effect
      resetSkips == runReset /\ didMountRef /\ updatingFromUrlRef
      resetPage == runReset /\ didMountRef /\ ~updatingFromUrlRef
      \* URL sync effect
      paramsStr == Serialize(paramsFromState(old))
      currentStr == Serialize(ParseQuery(location))
      newLoc == IF runSync /\ paramsStr # currentStr THEN paramsStr ELSE location
      \* URL effect
      url == stateFromParams(ParseQuery(location))
      afterReset == IF resetPage THEN [old EXCEPT !.currentPage = 0] ELSE old
      new == IF runUrl THEN [url EXCEPT !.currentPage =
                               IF url.currentPage # old.currentPage
                               THEN url.currentPage ELSE afterReset.currentPage]
             ELSE afterReset
  IN
  /\ mounted
  /\ pendingEffects # {}
  /\ didMountRef' = (didMountRef \/ runReset)
  /\ updatingFromUrlRef' = markerAfter(runUrl, resetSkips, updatingFromUrlRef)
  /\ location' = newLoc
  /\ SetFilterState(new)
  /\ pendingEffects' = EffectsFor(old, new, location, newLoc)
  /\ UNCHANGED <<pagingVars, pollVars, actVars, mounted, stableSetter, reloadedFrom, requested, jobs, pageSize, data,
                 pagesShown, statusVars, dashVars>>

\* a handler set the state to st, for a control that asked for the state
\* want: React renders and notes the effects due
UserSets(by, st, want) ==
  /\ Stable
  /\ SetFilterState(st)
  /\ pendingEffects' = EffectsFor(FilterState, st, location, location)
  /\ reloadedFrom' = NoSnapshot
  /\ requested' = [taken |-> TRUE, by |-> by, state |-> want, handled |-> st]
  /\ UNCHANGED <<pagingVars, pollVars, actVars, location, mounted, didMountRef, updatingFromUrlRef, stableSetter,
                 jobs, pageSize, data, pagesShown, statusVars, dashVars>>

\* JobList.handleFilterChange(filterType, value)
handleFilterChange(filterType, value) ==
  UserSets(filterType,
           [FilterState EXCEPT
              !.currentPage = 0,
              !.statusFilter = IF filterType = "status" THEN value ELSE @,
              !.taskFilter = IF filterType = "task" THEN value ELSE @,
              !.searchTerm = IF filterType = "search" THEN value ELSE @],
           [FilterState EXCEPT
              !.currentPage = 0,
              !.statusFilter = IF filterType = "status" THEN value ELSE @,
              !.taskFilter = IF filterType = "task" THEN value ELSE @,
              !.queueFilter = IF filterType = "queue" THEN value ELSE @,
              !.searchTerm = IF filterType = "search" THEN value ELSE @])

\* the search box changes
ChangeSearch == \E term \in TypedTerms : handleFilterChange("search", term)

\* the status select changes
ChangeStatus == \E st \in {All} \cup Statuses : handleFilterChange("status", st)

\* the task select changes
ChangeTask == \E task \in {All} \cup TaskNames : handleFilterChange("task", task)

\* the queue select changes
ChangeQueue == \E queue \in {All} \cup QueueNames : handleFilterChange("queue", queue)

\* a pagination control calls onPageChange(p)
ChangePage ==
  \E p \in 0..MaxPage :
    UserSets("page",
             [FilterState EXCEPT !.currentPage = p],
             [FilterState EXCEPT !.currentPage = p])

\* encodeURIComponent on one character of the model's alphabet
encodeURIComponentChar(c) ==
  IF c = " " THEN <<"%", "2", "0">> ELSE EncodeChar(c)

RECURSIVE encodeURIComponent(_)
encodeURIComponent(str) ==
  IF str = <<>> THEN <<>>
  ELSE encodeURIComponentChar(Head(str)) \o encodeURIComponent(Tail(str))

DefaultQueue == <<"d", "e", "f", "a", "u", "l", "t">>

\* the names the queues view lists: the queue names of the jobs, and
\* 'default' for the jobs without a queue
QueuesListed == QueueNames \cup {DefaultQueue}

\* the user clicks a queue in the queues view: navigate('/jobs?q=' + name),
\* the job list mounts on that address
OpenQueue ==
  \E name \in QueuesListed :
    LET query == KeyQ \o <<"=">> \o encodeURIComponent(name) IN
    /\ ~mounted \/ Stable
    /\ location' = query
    /\ mounted' = TRUE
    /\ SetFilterState(initialState(ParseQuery(query)))
    /\ didMountRef' = FALSE
    /\ updatingFromUrlRef' = FALSE
    /\ pendingEffects' = {"reset", "sync", "url"}
    /\ reloadedFrom' = NoSnapshot
    /\ requested' = [taken |-> TRUE, by |-> "openQueue",
                     state |-> [searchTerm |-> <<>>, statusFilter |-> All,
                                taskFilter |-> All, queueFilter |-> name,
                                currentPage |-> 0],
                     handled |-> initialState(ParseQuery(query))]
    /\ UNCHANGED <<pagingVars, pollVars, actVars, stableSetter, jobs, pageSize, data, pagesShown,
                   statusVars, dashVars>>

\* the browser goes back, forward or to a link of the list: the address changes
Navigate ==
  \E query \in LinkedQueries :
    /\ Stable
    /\ query # location
    /\ location' = query
    /\ pendingEffects' = EffectsFor(FilterState, FilterState, location, query)
    /\ reloadedFrom' = NoSnapshot
    /\ requested' = [taken |-> TRUE, by |-> "navigate",
                     state |-> stateFromParams(ParseQuery(query)),
                     handled |-> FilterState]
    /\ UNCHANGED <<pagingVars, pollVars, actVars, mounted, didMountRef, updatingFromUrlRef, stableSetter,
                   listVars, jobs, statusVars, dashVars>>

NextUrl ==
  \/ Mount
  \/ RunEffects
  \/ ChangeSearch
  \/ ChangeStatus
  \/ ChangeTask
  \/ ChangeQueue
  \/ ChangePage
  \/ Navigate
  \/ OpenQueue

SpecUrl == InitUrl /\ [][NextUrl]_vars

---------------------------------------------------------------------------
(* Claims about the address parameters, checked under SpecUrl *)

\* C7: once the filter state (search, status, task, queue, page) is encoded
\* in the address parameters, reloading the list from those parameters
\* reconstructs the identical filter state, the page index included.
C7_ReloadKeepsFilters ==
  reloadedFrom.taken => FilterState = reloadedFrom.state

\* a list whose address encoded a search term of reserved characters, a
\* status filter and a two-digit page was reloaded and its effects have run
C7_Witness ==
  /\ reloadedFrom.taken
  /\ Stable
  /\ location = Serialize(paramsFromState(reloadedFrom.state))
  /\ searchTerm = <<"&", "=">>
  /\ statusFilter = Failed
  /\ currentPage = MaxPage
  /\ currentPage >= 10

\* the address stands for the filter state
Agrees == stateFromParams(ParseQuery(location)) = FilterState

\* C17: filter state and address parameters are synchronised in both
\* directions: after a single change (a user change of a filter or of the
\* page, or a navigation that changes the query parameters) the state the
\* three effects settle in has the filter state and the address encoding the
\* same values, and they are the values the change asked for.
C17_SyncSettlesOnRequest ==
  (requested.taken /\ requested.by \notin {"mount", "openQueue"} /\ Stable)
    => (Agrees /\ FilterState = requested.state)

\* the filter controls of the list, by the filterType they pass
FilterControls == {"search", "status", "task", "queue"}

\* C23: changing one of the four filter controls (search, status, task,
\* queue) sets the corresponding filter state to the chosen value and the
\* current page to the first page, for the queue control as for the others:
\* the state the handler sets is the state the control asked for, and it is
\* the state the list settles in.
C23_FilterControlSetsState ==
  (requested.taken /\ requested.by \in FilterControls) =>
    /\ requested.handled = requested.state
    /\ Stable => FilterState = requested.state

\* C25: clicking a queue in the queues view opens the job list restricted
\* to the jobs of that queue: the list settles with the clicked queue as its
\* queue filter and no other filter or search, so that it shows exactly the
\* jobs of that queue.
C25_QueueClickFiltersByQueue ==
  (requested.taken /\ requested.by = "openQueue" /\ Stable)
    => FilterState = requested.state

\* the reset-page effect is due and will call setCurrentPage(0)
ResetFires ==
  /\ mounted
  /\ "reset" \in pendingEffects
  /\ didMountRef
  /\ ~updatingFromUrlRef

UrlDriven == {"mount", "navigate"}

---------------------------------------------------------------------------
(* SpecAction: the retry, cancel and complete actions of the views, from   *)
(* the button to the stored procedure and back                             *)

ActionKinds == {"retry", "cancel", "complete"}

\* the rows the actions are tried on: every unlocked row, and of the locked
\* rows (running in every view, whatever their other fields) a fresh one and
\* one that failed all its attempts
ActionRows ==
  {r \in [lockedAt : {0, 1}, lastError : {Null, Some(Boom)},
          attempts : {0, MaxAttempts}, maxAttempts : {MaxAttempts}] :
     r.lockedAt = 0 \/ (r.lastError.isNull <=> r.attempts = 0)}

\* what the table keeps in the place of a deleted row (never read)
DeletedRow ==
  [lockedAt |-> 0, lastError |-> Null, attempts |-> 0, maxAttempts |-> MaxAttempts]

JobIds == 1..MaxJobs

\* the row action buttons of the job lists, by the row's status
rowActionsCompleteWhileRunning(status) ==
  (IF status = Failed THEN {"retry"} ELSE {})
  \cup (IF status = Pending \/ status = Running THEN {"cancel", "complete"} ELSE {})

rowActions(status) ==
  (IF status = Failed THEN {"retry"} ELSE {})
  \cup (IF status = Pending \/ status = Running THEN {"cancel"} ELSE {})
  \cup (IF status = Pending THEN {"complete"} ELSE {})

\* the action buttons of the detail panel, by the status it derives
panelActions(status) ==
  (IF status = Failed THEN {"retry"} ELSE {})
  \cup (IF status = Pending \/ status = Running THEN {"cancel"} ELSE {})
  \cup (IF status = Pending THEN {"complete"} ELSE {})

\* the routed detail view renders no action button
detailActions(status) == {}

\* the handlers that open a confirm() prompt before they dispatch
needsConfirmCancelOnly(kind) == kind = "cancel"

needsConfirm(kind) == kind \in {"cancel", "complete"}

\* the stored procedure a mutation calls
procedureOf(kind) ==
  CASE kind = "retry" -> "reschedule_jobs"
    [] kind = "cancel" -> "permanently_fail_jobs"
    [] kind = "complete" -> "complete_jobs"

CancelledByUser ==
  <<"C", "a", "n", "c", "e", "l", "l", "e", "d", " ", "b", "y", " ", "u", "s", "e", "r">>

\* the text argument of the call: only cancelJob passes one
messageOf(kind) == IF kind = "cancel" THEN CancelledByUser ELSE <<>>

\* the id array a resolver passes: [[args.jobId]]
idsPassedAll(jobId) == [i \in JobIds |-> i]

idsPassed(jobId) == <<jobId>>

\* what a resolver returns: true after the query, false from the catch block
resolveRethrows(queryThrew) == IF queryThrew THEN "threw" ELSE "true"

resolve(queryThrew) == IF queryThrew THEN "false" ELSE "true"

\* a handler that calls its refresh callback from the catch block as well
handlerAfterAwaitRefreshAlways(c, refresh) ==
  IF c.outcome = "threw"
  THEN [c EXCEPT !.toast = "error", !.refreshed = refresh,
                 !.refreshedAt = c.outcome, !.pc = "idle"]
  ELSE [c EXCEPT !.toast = "success", !.refreshed = refresh,
                 !.refreshedAt = c.outcome, !.pc = "idle"]

\* the rest of a handler after its await: toast.success and the refresh
\* callback after a result, toast.error in the catch block
handlerAfterAwait(c, refresh) ==
  IF c.outcome = "threw"
  THEN [c EXCEPT !.toast = "error", !.pc = "idle"]
  ELSE [c EXCEPT !.toast = "success", !.refreshed = refresh,
                 !.refreshedAt = c.outcome, !.pc = "idle"]

ElemsOf(seq) == {seq[i] : i \in 1..Len(seq)}

\* the tables a stored procedure may leave when it is passed ids: the
\* procedures belong to the job queue, not to this program, so the rows they
\* are passed may end up with any values, or deleted
GoneAfter(ids) == {gone \cup g : g \in SUBSET ElemsOf(ids)}

TablesAfter(ids, goneAfter) ==
  {t \in [JobIds -> ActionRows] :
     \A i \in JobIds :
       /\ i \in goneAfter => t[i] = DeletedRow
       /\ i \notin goneAfter /\ i \notin ElemsOf(ids) => t[i] = jobs[i]}

InitAction ==
  /\ jobs \in [JobIds -> ActionRows]
  /\ gone = {}
  /\ offered = {}
  /\ payloadShown = FALSE
  /\ viewed = 0
  /\ onRefresh = "none"
  /\ click = NoClick
  /\ called = NoCall
  /\ StatusIdle
  /\ DashIdle
  /\ ListIdle
  /\ UrlIdle
  /\ PollIdle
  /\ PagingIdle

\* a view renders the job id with the row its query returned; the record of
\* the handler that ran before belongs to the previous rendering
Render(view, id, status, actions, payload, refresh) ==
  /\ click.pc = "idle"
  /\ id \notin gone
  /\ job' = jobs[id]
  /\ shown' = [view |-> view, status |-> status]
  /\ offered' = actions
  /\ payloadShown' = payload
  /\ viewed' = id
  /\ onRefresh' = refresh
  /\ click' = NoClick
  /\ called' = NoCall
  /\ UNCHANGED <<pagingVars, pollVars, gone, jobs, dashVars, listVars, urlVars>>

\* the job list renders a row with its buttons; its handlers call refetch()
ViewListRow ==
  \E id \in JobIds :
    Render("list", id, getJobStatus(jobs[id]),
           rowActions(getJobStatus(jobs[id])), TRUE, "GET_PAGINATED_JOBS_QUERY")

\* the condition-based job list renders a row with its buttons
ViewCondListRow ==
  \E id \in JobIds :
    Render("condList", id, getJobStatusCond(jobs[id]),
           rowActions(getJobStatusCond(jobs[id])), FALSE, "GET_PAGINATED_JOBS_QUERY")

\* the routed detail view renders the job: fields and payload, no button
ViewDetail ==
  \E id \in JobIds :
    Render("detail", id, detailStatus(jobs[id]),
           detailActions(detailStatus(jobs[id])), TRUE, "none")

\* the detail panel renders the job beside the list of the tabbed App,
\* which passes its own refetch as onRefresh
ViewPanelInApp ==
  \E id \in JobIds :
    Render("panel", id, panelStatus(jobs[id]),
           panelActions(panelStatus(jobs[id])), FALSE, "GET_DASHBOARD_DATA_QUERY")

\* JobPage renders the detail panel with onRefresh={() => {}}
ViewPanelInPage ==
  \E id \in JobIds :
    Render("panel", id, panelStatus(jobs[id]),
           panelActions(panelStatus(jobs[id])), FALSE, "nothing")

\* the user clicks an action button of the rendered job: the handler starts.
\* handleRetryJob dispatches at once; handleCancelJob and handleCompleteJob
\* open the confirm() prompt first
ClickAction ==
  \E kind \in ActionKinds :
    /\ click.pc = "idle"
    /\ viewed # 0
    /\ kind \in offered
    /\ click' = [NoClick EXCEPT
                   !.kind = kind,
                   !.id = viewed,
                   !.asked = needsConfirm(kind),
                   !.pc = IF needsConfirm(kind) THEN "confirm" ELSE "sent",
                   !.dispatched = IF needsConfirm(kind) THEN 0 ELSE 1]
    /\ called' = NoCall
    /\ UNCHANGED <<pagingVars, pollVars, offered, payloadShown, viewed, onRefresh, gone, jobs,
                   statusVars, dashVars, listVars, urlVars>>

\* the user answers the confirm() prompt: on cancel the handler returns, on OK
\* it dispatches the mutation
AnswerConfirm ==
  \E ok \in BOOLEAN :
    /\ click.pc = "confirm"
    /\ click' = IF ok
                THEN [click EXCEPT !.confirmed = TRUE, !.pc = "sent",
                                   !.dispatched = @ + 1]
                ELSE [click EXCEPT !.pc = "idle"]
    /\ UNCHANGED <<pagingVars, pollVars, offered, payloadShown, viewed, onRefresh, gone, called, jobs,
                   statusVars, dashVars, listVars, urlVars>>

\* the mutation request fails before it reaches the resolver (network error):
\* the awaited promise rejects
MutationRejects ==
  /\ click.pc = "sent"
  /\ click' = [click EXCEPT !.outcome = "threw", !.pc = "rejected"]
  /\ UNCHANGED <<pagingVars, pollVars, offered, payloadShown, viewed, onRefresh, gone, called, jobs,
                 statusVars, dashVars, listVars, urlVars>>

\* the resolver of retryJob, cancelJob or completeJob runs on the server: it
\* calls its stored procedure with the id it was given; the query throws or
\* the procedure runs
Resolve ==
  \E queryThrew \in BOOLEAN :
    /\ click.pc = "sent"
    /\ called' = [proc |-> procedureOf(click.kind), ids |-> idsPassed(click.id),
                  message |-> messageOf(click.kind)]
    /\ IF queryThrew
       THEN UNCHANGED <<pagingVars, pollVars, jobs, gone>>
       ELSE /\ gone' \in GoneAfter(idsPassed(click.id))
            /\ jobs' \in TablesAfter(idsPassed(click.id), gone')
    /\ click' = [click EXCEPT !.queryThrew = queryThrew,
                              !.outcome = resolve(queryThrew),
                              !.pc = "resolved"]
    /\ UNCHANGED <<pagingVars, pollVars, offered, payloadShown, viewed, onRefresh,
                   statusVars, dashVars, listVars, urlVars>>

\* the awaited mutation settles and the handler goes on: after a result it
\* shows the success toast and calls refetch() or onRefresh(); after an error
\* it shows the error toast
HandlerResumes ==
  /\ click.pc \in {"resolved", "rejected"}
  /\ click' = handlerAfterAwait(click, onRefresh)
  /\ UNCHANGED <<pagingVars, pollVars, offered, payloadShown, viewed, onRefresh, gone, called, jobs,
                 statusVars, dashVars, listVars, urlVars>>

NextAction ==
  \/ ViewListRow
  \/ ViewCondListRow
  \/ ViewDetail
  \/ ViewPanelInApp
  \/ ViewPanelInPage
  \/ ClickAction
  \/ AnswerConfirm
  \/ MutationRejects
  \/ Resolve
  \/ HandlerResumes

SpecAction == InitAction /\ [][NextAction]_vars

---------------------------------------------------------------------------
(* Claims about the actions, checked under SpecAction *)

\* the handler of the last click has returned
HandlerDone == click.kind # "none" /\ click.pc = "idle"

\* C11: each of the mutations retryJob, cancelJob and completeJob returns
\* true when its stored-procedure call succeeds and the boolean false, never
\* a raised error, when the data-access call throws; there is no other result.
C11_ResolverReturnsBoolean ==
  click.pc = "resolved" =>
    /\ click.outcome \in {"true", "false"}
    /\ click.outcome = "false" <=> click.queryThrew
    /\ called.proc = procedureOf(click.kind)

\* the query of a cancelJob call threw and the resolver answered false
C11_Witness ==
  /\ click.pc = "resolved"
  /\ click.kind = "cancel"
  /\ click.queryThrew
  /\ click.outcome = "false"
  /\ called.proc = "permanently_fail_jobs"

\* C12: whenever an action mutation fails, the server answering with the
\* boolean false included, the user is shown the failure notification and
\* not the success notification of that action.
C12_FailureIsNotified ==
  (HandlerDone /\ click.outcome \in {"false", "threw"}) => click.toast = "error"

\* C13: a cancelJob or completeJob mutation is dispatched only after the
\* user confirmed the prompt of that action; when the user declines, no
\* mutation is sent, no notification is shown and no refetch is issued.
C13_ConfirmBeforeDispatch ==
  click.kind \in {"cancel", "complete"} =>
    /\ click.dispatched > 0 => click.asked /\ click.confirmed
    /\ click.pc \in {"sent", "resolved"} => click.confirmed
    /\ (click.pc = "idle" /\ ~click.confirmed) =>
         /\ click.dispatched = 0
         /\ click.outcome = "none"
         /\ click.toast = "none"
         /\ click.refreshed = "none"
         /\ called = NoCall

\* the user declined the prompt of the detail panel's complete button
C13_Witness ==
  /\ shown.view = "panel"
  /\ click.kind = "complete"
  /\ click.asked
  /\ ~click.confirmed
  /\ click.pc = "idle"
  /\ click.dispatched = 0

\* C14: in the job list the row actions follow the row's derived status:
\* retry is offered exactly when it is failed, cancel exactly when it is
\* pending or running, complete exactly when it is pending, and nothing is
\* offered for a completed row.
C14_ListActionsGated ==
  (viewed # 0 /\ shown.view \in {"list", "condList"}) =>
    /\ "retry" \in offered <=> shown.status = Failed
    /\ "cancel" \in offered <=> shown.status \in {Pending, Running}
    /\ "complete" \in offered <=> shown.status = Pending
    /\ shown.status = Completed => offered = {}
    /\ offered \subseteq ActionKinds

\* the list rendered a running row, which offers cancel only
C14_Witness ==
  /\ viewed # 0
  /\ shown.view = "list"
  /\ shown.status = Running
  /\ offered = {"cancel"}

\* C15: the job detail view, for a job fetched by identifier, offers the same
\* three actions as the job list with the same gating by derived status, and
\* shows the job's payload.
C15_DetailOffersActions ==
  (viewed # 0 /\ shown.view \in {"detail", "panel"}) =>
    /\ offered = rowActions(shown.status)
    /\ payloadShown

\* the query a view's data comes from
ViewQuery(view) ==
  IF view \in {"list", "condList"} THEN "GET_PAGINATED_JOBS_QUERY"
  ELSE IF view = "panel" THEN "GET_JOB_QUERY"
  ELSE "GET_JOB_BY_ID"

\* C16: for every action the refetch of the view's query is issued only
\* after the mutation has resolved, and after every mutation that resolved;
\* when the mutation request throws, no refetch is issued and the mutation
\* is not dispatched again without a new user action.
C16_RefetchAfterResolve ==
  /\ click.refreshed # "none" => click.refreshedAt \in {"true", "false"}
  /\ (HandlerDone /\ click.outcome \in {"true", "false"})
       => click.refreshed = ViewQuery(shown.view)
  /\ click.outcome = "threw" => click.refreshed = "none"
  /\ click.dispatched <= 1

\* C16 as the handlers have it: the handler calls its refresh callback (the
\* list's own refetch in the job lists, the onRefresh of its host in the
\* detail panel) only after the mutation has resolved and after every
\* mutation that resolved; in the job lists the callback refetches the
\* view's query; when the mutation request throws, the callback is not
\* called and the mutation is not dispatched again without a new click.
C16_RefreshCallbackAfterResolve ==
  /\ click.refreshed # "none" => click.refreshedAt \in {"true", "false"}
  /\ (HandlerDone /\ click.outcome \in {"true", "false"})
       => click.refreshed = onRefresh
  /\ (HandlerDone /\ click.outcome \in {"true", "false"}
        /\ shown.view \in {"list", "condList"})
       => click.refreshed = ViewQuery(shown.view)
  /\ click.outcome = "threw" => click.refreshed = "none"
  /\ click.dispatched <= 1

\* a retry from the detail panel of JobPage resolved; its onRefresh did nothing
C16_Witness ==
  /\ HandlerDone
  /\ shown.view = "panel"
  /\ click.kind = "retry"
  /\ click.outcome = "true"
  /\ click.refreshed = "nothing"

\* C20: no operation of the views creates a job row, and each action
\* mutation passes exactly the one job identifier it was given to its stored
\* procedure, so every job with another identifier is left as it was.
C20_OtherJobsUntouched ==
  [][/\ gone \subseteq gone'
     /\ DOMAIN jobs' = DOMAIN jobs
     /\ called' # called /\ called'.proc # "none" => called'.ids = <<click.id>>
     /\ \A i \in JobIds :
          i # click.id => /\ jobs'[i] = jobs[i]
                          /\ i \in gone' <=> i \in gone]_vars

\* a completeJob call went through and the job it named is gone
C20_Witness ==
  /\ click.kind = "complete"
  /\ click.outcome = "true"
  /\ called.ids = <<click.id>>
  /\ click.id \in gone
  /\ \E i \in JobIds : i # click.id /\ i \notin gone

---------------------------------------------------------------------------
(* The consumers of a job's status compared, checked under SpecStatus *)

\* the jobStats field that counts the jobs of a status
BucketOf(status) ==
  CASE status = Pending -> "pending"
    [] status = Running -> "running"
    [] status = Failed -> "failed"
    [] status = Completed -> "completed"

\* the statuses whose dashboard bucket (full scan) counts the row
CountedAs(row) == {s \in Statuses : scanStats(<<row>>)[BucketOf(s)] = 1}

\* C18: for every job all consumers derive the same status: the status the
\* job list computes, the status the detail view computes and the bucket the
\* dashboard counts the job in are equal.
C18_ConsumersAgree ==
  Rendered =>
    /\ shown.status = getJobStatus(job)
    /\ CountedAs(job) = {shown.status}

---------------------------------------------------------------------------
(* SpecPoll: one view's query slot: the requests its polling, its refresh  *)
(* button and its action handlers issue, and the responses it displays.   *)
(* The job's state on the server is followed by a version number that     *)
(* every executed mutation raises.  Requests are answered and responses   *)
(* arrive in any order; the view displays the response that arrived last. *)

PollViews ==
  {"dashboardScan", "dashboard", "list", "condList", "detail", "panelInApp",
   "panelInPage", "queues"}

\* a useQuery without polling
pollIntervalOfNone(view) == 0

\* the pollInterval option of the view's useQuery, in ms
pollIntervalOf(view) ==
  CASE view = "dashboardScan" -> 5000
    [] view = "dashboard" -> 30000
    [] view = "list" -> 5000
    [] view = "condList" -> 5000
    [] view = "detail" -> 10000
    [] view \in {"panelInApp", "panelInPage"} -> 2000
    [] view = "queues" -> 15000

\* the views that render retry, cancel and complete buttons
hasActions(view) == view \in {"list", "condList", "panelInApp", "panelInPage"}

\* the handler calls refetch() of the view's own query after the mutation;
\* the panel calls onRefresh, the dashboard's refetch or nothing
refetchesOwnQuery(view) == view \in {"list", "condList"}

\* the view has a button that calls refetch()
hasRefreshButton(view) == view \notin {"panelInApp", "panelInPage"}

SumAnswers == SumOver(answers, 0..MaxActions)

\* the requests of the slot that are not yet answered to the view
InFlight == sent + SumAnswers

InitPoll ==
  /\ jobs = <<>>
  /\ PollIdle
  /\ PagingIdle
  /\ StatusIdle
  /\ DashIdle
  /\ ListIdle
  /\ UrlIdle
  /\ ActIdle

\* the view mounts: useQuery issues the first request and starts polling
MountView ==
  \E view \in PollViews :
    /\ pollView = "none"
    /\ pollView' = view
    /\ pollEvery' = pollIntervalOf(view)
    /\ sent' = sent + 1
    /\ UNCHANGED <<answers, serverVersion, shownVersion, acting, staleShown,
                   jobs, statusVars, dashVars, listVars, urlVars, actVars, pagingVars>>

\* the poll timer of the view fires
PollTick ==
  /\ pollView # "none"
  /\ pollEvery > 0
  /\ InFlight < MaxInFlight
  /\ sent' = sent + 1
  /\ UNCHANGED <<pollView, pollEvery, answers, serverVersion, shownVersion,
                 acting, staleShown,
                 jobs, statusVars, dashVars, listVars, urlVars, actVars, pagingVars>>

\* the user presses the view's refresh button
ManualRefresh ==
  /\ pollView # "none"
  /\ hasRefreshButton(pollView)
  /\ InFlight < MaxInFlight
  /\ sent' = sent + 1
  /\ UNCHANGED <<pollView, pollEvery, answers, serverVersion, shownVersion,
                 acting, staleShown,
                 jobs, statusVars, dashVars, listVars, urlVars, actVars, pagingVars>>

\* the server executes one request of the slot and answers with the job as
\* it is then
ServerAnswers ==
  /\ sent > 0
  /\ sent' = sent - 1
  /\ answers' = [answers EXCEPT ![serverVersion] = @ + 1]
  /\ UNCHANGED <<pollView, pollEvery, serverVersion, shownVersion, acting,
                 staleShown,
                 jobs, statusVars, dashVars, listVars, urlVars, actVars, pagingVars>>

\* a response arrives and the view renders its data
ResponseArrives ==
  \E v \in 0..MaxActions :
    /\ answers[v] > 0
    /\ answers' = [answers EXCEPT ![v] = @ - 1]
    /\ shownVersion' = v
    /\ staleShown' = (staleShown \/ (v < serverVersion /\ acting = "idle"))
    /\ UNCHANGED <<pollView, pollEvery, sent, serverVersion, acting,
                   jobs, statusVars, dashVars, listVars, urlVars, actVars, pagingVars>>

\* the user clicks an action button of a rendered job (and confirms)
Dispatch ==
  /\ pollView # "none"
  /\ hasActions(pollView)
  /\ shownVersion >= 0
  /\ acting = "idle"
  /\ serverVersion < MaxActions
  /\ acting' = "dispatched"
  /\ UNCHANGED <<pollView, pollEvery, sent, answers, serverVersion,
                 shownVersion, staleShown,
                 jobs, statusVars, dashVars, listVars, urlVars, actVars, pagingVars>>

\* the server executes the mutation and the mutation resolves
MutationExecutes ==
  /\ acting = "dispatched"
  /\ serverVersion' = serverVersion + 1
  /\ acting' = "resolved"
  /\ UNCHANGED <<pollView, pollEvery, sent, answers, shownVersion, staleShown,
                 jobs, statusVars, dashVars, listVars, urlVars, actVars, pagingVars>>

\* the request of the mutation fails: the handler shows the error toast
MutationFails ==
  /\ acting = "dispatched"
  /\ acting' = "idle"
  /\ UNCHANGED <<pollView, pollEvery, sent, answers, serverVersion,
                 shownVersion, staleShown,
                 jobs, statusVars, dashVars, listVars, urlVars, actVars, pagingVars>>

\* the handler continues after the await: toast, then refetch() or onRefresh()
HandlerContinues ==
  /\ acting = "resolved"
  /\ acting' = "idle"
  /\ sent' = IF refetchesOwnQuery(pollView) THEN sent + 1 ELSE sent
  /\ UNCHANGED <<pollView, pollEvery, answers, serverVersion, shownVersion,
                 staleShown,
                 jobs, statusVars, dashVars, listVars, urlVars, actVars, pagingVars>>

NextPoll ==
  \/ MountView
  \/ ManualRefresh
  \/ PollTick
  \/ ServerAnswers
  \/ ResponseArrives
  \/ Dispatch
  \/ MutationExecutes
  \/ MutationFails
  \/ HandlerContinues

SpecPoll == InitPoll /\ [][NextPoll]_vars

\* the poll timer keeps firing, every request is answered, every response
\* arrives and a dispatched mutation and its handler run to their end
SpecPollFair ==
  /\ SpecPoll
  /\ WF_vars(PollTick)
  /\ WF_vars(ServerAnswers)
  /\ WF_vars(ResponseArrives)
  /\ WF_vars(MutationExecutes)
  /\ WF_vars(HandlerContinues)

---------------------------------------------------------------------------
(* Claims about polling, checked under SpecPoll and SpecPollFair *)

\* C22: every polling view refetches on a fixed interval between 5 and 30
\* seconds inclusive: the pollInterval of the mounted view's query lies in
\* [5000, 30000] ms.
C22_PollIntervalInRange ==
  pollView # "none" => (pollEvery >= 5000 /\ pollEvery <= 30000)

\* C29: after an action mutation was executed the view from which it was
\* issued eventually displays the job as it is after the action, and an
\* older response is never left displayed for good.
C29_ViewCatchesUp ==
  /\ \A n \in 1..MaxActions : (serverVersion = n) ~> (shownVersion >= n)
  /\ []<>(pollView = "none" \/ shownVersion = serverVersion)

\* a response older than the executed mutation was displayed after the
\* mutation, and the view displays the job as it is after the mutation
C29_Witness ==
  /\ staleShown
  /\ serverVersion > 0
  /\ shownVersion = serverVersion
  /\ acting = "idle"

---------------------------------------------------------------------------
(* SpecPaging: the Pagination component, rendered with its props, and the *)
(* page index each of its controls passes to onPageChange                 *)

\* what the user leaves in the page number input (e.target.value)
TypedValues ==
  {<<>>, <<"0">>, <<"1">>, <<"3">>, <<"9">>, <<"1", "2">>, <<"-", "2">>}

\* Previous: onPageChange(Math.max(0, currentPage - 1))
previousPage(cur) == Max(0, cur - 1)

\* Next: onPageChange(Math.min(currentPage + 1, totalPages - 1))
nextPage(cur, pages) == Min(cur + 1, pages - 1)

\* an input handler that forgets the upper end
typedPageNoUpperEnd(p, pages) == Max(p - 1, 0)

\* page input: Math.min(Math.max(p - 1, 0), totalPages - 1)
typedPage(p, pages) == Min(Max(p - 1, 0), pages - 1)

InitPaging ==
  /\ pager \in [currentPage : 0..(MaxTotalPages - 1), totalPages : 2..MaxTotalPages,
                hasNextPage : BOOLEAN, hasPreviousPage : BOOLEAN]
  /\ pager.currentPage <= pager.totalPages - 1
  /\ passed = NoPass
  /\ jobs = <<>>
  /\ StatusIdle
  /\ DashIdle
  /\ ListIdle
  /\ UrlIdle
  /\ ActIdle
  /\ PollIdle

\* onPageChange(p) from a control: JobList sets its page and renders
\* Pagination again, with the pageInfo of the new page
onPageChange(control, typed, p) ==
  /\ passed' = [control |-> control, page |-> p, typed |-> typed]
  /\ \E next, previous \in BOOLEAN :
       pager' = [pager EXCEPT !.currentPage = p, !.hasNextPage = next,
                              !.hasPreviousPage = previous]
  /\ UNCHANGED <<jobs, statusVars, dashVars, listVars, urlVars, actVars, pollVars>>

PagerFirst ==
  /\ pager.currentPage # 0
  /\ onPageChange("first", <<>>, 0)

PagerPrevious ==
  /\ pager.hasPreviousPage
  /\ onPageChange("previous", <<>>, previousPage(pager.currentPage))

PagerInput ==
  \E value \in TypedValues :
    LET p == parseInt(IF value = <<>> THEN <<"1">> ELSE value) IN
    /\ ~p.nan
    /\ onPageChange("input", value, typedPage(p.n, pager.totalPages))

PagerNext ==
  /\ pager.hasNextPage
  /\ onPageChange("next", <<>>, nextPage(pager.currentPage, pager.totalPages))

PagerLast ==
  /\ ~(pager.currentPage >= pager.totalPages - 1)
  /\ onPageChange("last", <<>>, pager.totalPages - 1)

NextPaging == PagerFirst \/ PagerPrevious \/ PagerInput \/ PagerNext \/ PagerLast

SpecPaging == InitPaging /\ [][NextPaging]_vars

---------------------------------------------------------------------------
(* Claims about the pagination controls, checked under SpecPaging *)

\* C30: every page index the Pagination controls (First, Previous, page
\* number input, Next, Last) pass to onPageChange lies in
\* [0, totalPages - 1], for every currentPage in that range, every
\* totalPages >= 2 and every number typed into the input.
C30_ControlsPassValidPage ==
  passed.control # "none" =>
    (0 <= passed.page /\ passed.page <= pager.totalPages - 1)

\* a number beyond the last page was typed and the input passed the last page
C30_Witness ==
  /\ passed.control = "input"
  /\ passed.typed = <<"9">>
  /\ passed.page = pager.totalPages - 1


=============================================================================
